---- MODULE Spec2Model ----
(***************************************************************************)
(* Direct linear solvers of the PDEs repository: dense LU (lu.cc),         *)
(* SparseLU (sparse_lu.cc) and SparseCholesky (lu.cc, second half).        *)
(*                                                                         *)
(* A double is modelled as an exact rational <<p, q>> in lowest terms with *)
(* q > 0, extended with the IEEE-754 special values +Inf = <<1, 0>>,       *)
(* -Inf = <<-1, 0>> and NaN = <<0, 0>>, so that a division by a zero pivot *)
(* and a square root of a negative number produce what the hardware        *)
(* produces instead of stopping the model.  Rounding and the sign of zero  *)
(* are not modelled.                                                       *)
(***************************************************************************)
EXTENDS Integers, Sequences, FiniteSets, TLC

(***************************************************************************)
(* Bounds of the model.                                                    *)
(***************************************************************************)
N == 2          \* the systems are N x N
MaxNnz == 2     \* at most MaxNnz nonzero off-diagonal entries
NSpd == 3       \* the symmetric positive-definite systems are NSpd x NSpd
MaxLen == 2     \* Vector operands have at most MaxLen elements
MaxOverrun == 2  \* a loop that runs past the end of a Vector is followed this far
MaxIterations == 3  \* Options::max_iterations is at most MaxIterations
SizeBits == 3   \* size_t is modelled SizeBits wide

Idx == 0..(N - 1)

(***************************************************************************)
(* double arithmetic                                                       *)
(***************************************************************************)
AbsInt(a) == IF a < 0 THEN -a ELSE a

SignInt(a) == IF a < 0 THEN -1 ELSE IF a > 0 THEN 1 ELSE 0

RECURSIVE Gcd(_, _)
Gcd(a, b) == IF b = 0 THEN a ELSE Gcd(b, a % b)

\* canonical form of the quotient p / q
Norm(p, q) ==
  IF q = 0 THEN <<SignInt(p), 0>>
  ELSE LET g == Gcd(AbsInt(p), AbsInt(q))
       IN  <<(SignInt(q) * p) \div g, AbsInt(q) \div g>>

Zero == <<0, 1>>
One == <<1, 1>>
NaN == <<0, 0>>

FromInt(a) == <<a, 1>>

IsNaN(v) == v = NaN
IsFinite(v) == v[2] # 0

\* v == 0.0 ; false for NaN and the infinities
IsZero(v) == v = Zero

\* a > b ; false when either is NaN
Gt(a, b) ==
  IF IsNaN(a) \/ IsNaN(b) THEN FALSE
  ELSE IF a[2] = 0 THEN a[1] > 0 /\ b # a
  ELSE IF b[2] = 0 THEN b[1] < 0
  ELSE a[1] * b[2] > b[1] * a[2]

Lt(a, b) == Gt(b, a)

Neg(a) == <<-a[1], a[2]>>

\* std::fabs
Fabs(a) == <<AbsInt(a[1]), a[2]>>

Add(a, b) ==
  IF a[2] = 0 /\ b[2] = 0
  THEN (IF a[1] = b[1] THEN a ELSE NaN)
  ELSE Norm(a[1] * b[2] + b[1] * a[2], a[2] * b[2])

Sub(a, b) == Add(a, Neg(b))

Mul(a, b) == Norm(a[1] * b[1], a[2] * b[2])

Div(a, b) == Norm(a[1] * b[2], a[2] * b[1])

\* the integer r >= 0 with r * r = a, or -1 when a is not a perfect square
ISqrt(a) == IF \E r \in 0..a : r * r = a
            THEN CHOOSE r \in 0..a : r * r = a
            ELSE -1

\* the arguments on which std::sqrt is exact in this value domain
SqrtExact(a) == IF a[2] = 0 \/ a[1] < 0 THEN TRUE
                ELSE ISqrt(a[1]) >= 0 /\ ISqrt(a[2]) >= 0

\* std::sqrt : NaN for a negative argument (and for -Inf and NaN)
Sqrt(a) == IF a[2] = 0 THEN (IF a[1] > 0 THEN a ELSE NaN)
           ELSE IF a[1] < 0 THEN NaN
           ELSE <<ISqrt(a[1]), ISqrt(a[2])>>

(***************************************************************************)
(* Vector : a function over 0..size-1                                      *)
(***************************************************************************)
Vector_size(v) == Cardinality(DOMAIN v)

\* Vector(size, value)
Vector_fill(size, value) == [i \in 0..(size - 1) |-> value]

(***************************************************************************)
(* Matrix (dense, row major) : A[i][j]                                     *)
(***************************************************************************)
Matrix_swap_row(A, i, k) ==
  [r \in DOMAIN A |-> IF r = i THEN A[k] ELSE IF r = k THEN A[i] ELSE A[r]]

(***************************************************************************)
(* SparseMatrix : S[i] is the sequence of the entries of row i, records    *)
(* [column, value] in ascending column order, at most one per column.      *)
(***************************************************************************)
\* position of column j in a row, 0 when the entry is absent
RowFind(row, j) ==
  IF \E p \in 1..Len(row) : row[p].column = j
  THEN CHOOSE p \in 1..Len(row) : row[p].column = j
  ELSE 0

\* locate(i, j) # nullptr
SparseMatrix_present(S, i, j) == RowFind(S[i], j) # 0

\* *locate(i, j), for a present entry
SparseMatrix_locate(S, i, j) == S[i][RowFind(S[i], j)].value

\* *diagonal(i), for a present entry
SparseMatrix_diagonal(S, i) == SparseMatrix_locate(S, i, i)

\* the row with the entry of column j overwritten by, or created with, v
RowPut(row, j, v) ==
  LET p == RowFind(row, j)
      e == [column |-> j, value |-> v]
  IN  IF p # 0 THEN [row EXCEPT ![p] = e]
      ELSE SelectSeq(row, LAMBDA el : el.column < j) \o <<e>>
             \o SelectSeq(row, LAMBDA el : el.column > j)

\* set(i, j, v) : insert or overwrite
SparseMatrix_set(S, i, j, v) == [S EXCEPT ![i] = RowPut(S[i], j, v)]

\* add(i, j, v) : insert or accumulate
SparseMatrix_add(S, i, j, v) ==
  IF SparseMatrix_present(S, i, j)
  THEN [S EXCEPT ![i] = RowPut(S[i], j, Add(SparseMatrix_locate(S, i, j), v))]
  ELSE [S EXCEPT ![i] = RowPut(S[i], j, v)]

SparseMatrix_swap_row(S, i, k) ==
  [r \in DOMAIN S |-> IF r = i THEN S[k] ELSE IF r = k THEN S[i] ELSE S[r]]

\* the value a dense reader sees at (i, j) : an absent entry is zero
SparseMatrix_value(S, i, j) ==
  IF SparseMatrix_present(S, i, j) THEN SparseMatrix_locate(S, i, j) ELSE Zero

\* Matrix::n_rows and SparseMatrix::n_rows ; the rows are numbered from 0
n_rows(A) == Cardinality(DOMAIN A)

(***************************************************************************)
(* The systems handed to the solvers                                       *)
(***************************************************************************)
\* matrix entries are integers of either sign, or zero
Vals == {-1, 0, 1}

OffDiagNnz(M) == Cardinality({p \in Idx \X Idx : p[1] # p[2] /\ M[p[1]][p[2]] # 0})

Systems == {M \in [Idx -> [Idx -> Vals]] : OffDiagNnz(M) <= MaxNnz}

\* the dense Matrix holding the entries of M
DenseOf(M) == [i \in DOMAIN M |-> [j \in DOMAIN M |-> FromInt(M[i][j])]]

\* the SparseMatrix holding the entries of M ; zeros are stored explicitly
\* when explicit_zeros, and left out otherwise
SparseOf(M, explicit_zeros) ==
  [i \in DOMAIN M |->
     SelectSeq([k \in 1..n_rows(M) |-> [column |-> k - 1, value |-> FromInt(M[i][k - 1])]],
               LAMBDA el : explicit_zeros \/ el.value # Zero)]

\* right-hand sides of the right length : b[i] = i + 1, whose entries are all
\* different, and the vector of ones
Rhs == {[i \in Idx |-> FromInt(i + 1)], Vector_fill(N, One)}

\* the vectors a caller passes to solve : right-hand sides of the right
\* length and one that is too long
BArgs == Rhs \cup {Vector_fill(N + 1, One)}

\* the output vectors a caller passes to solve, with their contents on entry
XArgs == {Vector_fill(N, Zero), Vector_fill(N, One), Vector_fill(N - 1, Zero)}

\* A read through a null pointer traps ; a build may also drop the read
\* when the value read is never used.

\* Assert(cond, msg) throws when cond is false ; the error kinds
NoError == "none"
SingularMatrix == "Singular matrix error."
NotFactorized == "Matrix must be factorized before solving."
DimensionMismatch == "Dimension mismatch error."

VARIABLES
  system,    \* the entries of the system the caller assembled (never changed)
  active,    \* the solvers the caller builds on that system
  lu,        \* LinearSolver::LU and the vectors of its last solve call
  slu,       \* SparseLU and the vectors of its last solve call
  chol,      \* LinearSolver::SparseCholesky and the vectors of its last solve call
  vec,       \* a Vector operation : its operands, its position and its outcome
  iter       \* a solve call of an iterative solver

vars == <<system, active, lu, slu, chol, vec, iter>>

\* no Vector operation and no iterative solve call in this run
NoVector == [pc |-> "none"]

NoIterative == [pc |-> "none"]

\* a solver object that has not been constructed yet, next to the matrix A
\* the caller is going to hand to it
Unconstructed(A) ==
  [st |-> "none",            \* none, factorizing, ready, failed, aborted, crashed
   j |-> 0,                  \* the column factorize() is at
   A |-> A,                  \* the matrix, factorized in place
   row_pivots |-> [i \in DOMAIN A |-> 0],
   pivot_flag |-> FALSE,
   factorized |-> FALSE,
   error |-> NoError,        \* the error the constructor / factorize threw
   divzero |-> FALSE,        \* history: some a_ij / a_jj was computed with a_jj zero
   negsqrt |-> FALSE,        \* history: std::sqrt was given a negative argument
   again |-> FALSE,          \* history: b1 was solved again after another right-hand side
   b |-> <<>>,               \* right-hand side of the last solve call
   x_in |-> <<>>,            \* contents of x on entry, when the last solve call threw
   x |-> <<>>,               \* contents of x when the last solve call ended
   rc |-> "none",            \* none, ok, or the error the last solve call threw
   b1 |-> <<>>,              \* right-hand side of the first solve call that returned
   x1 |-> <<>>]              \* and the x it returned

\* the constructor of LU and of SparseLU on entry to the column loop of
\* factorize() : the flag is stored and each row maps to itself
Constructing(s, pivot) ==
  [s EXCEPT !.st = "factorizing",
            !.pivot_flag = pivot,
            !.row_pivots = [i \in DOMAIN s.A |-> i],
            !.j = 0]

(***************************************************************************)
(* LinearSolver::LU  (lu.cc)                                               *)
(***************************************************************************)
\* the pivot search loop comparing with >= , which moves to the last of the
\* rows tied for the largest magnitude
RECURSIVE LU_pivot_search_last(_, _, _, _, _)
LU_pivot_search_last(A, j, k, argmax, max) ==
  IF k >= n_rows(A) THEN <<argmax, max>>
  ELSE IF Gt(Fabs(A[k][j]), max) \/ Fabs(A[k][j]) = max
       THEN LU_pivot_search_last(A, j, k + 1, k, Fabs(A[k][j]))
       ELSE LU_pivot_search_last(A, j, k + 1, argmax, max)

\* the pivot search loop of factorize() from row k on : <<argmax, max>>
RECURSIVE LU_pivot_search(_, _, _, _, _)
LU_pivot_search(A, j, k, argmax, max) ==
  IF k >= n_rows(A) THEN <<argmax, max>>
  ELSE IF Gt(Fabs(A[k][j]), max)
       THEN LU_pivot_search(A, j, k + 1, k, Fabs(A[k][j]))
       ELSE LU_pivot_search(A, j, k + 1, argmax, max)

\* the elimination loop of factorize() for column j
LU_eliminate(A, j) ==
  [i \in DOMAIN A |->
     IF i <= j THEN A[i]
     ELSE LET a_ij == Div(A[i][j], A[j][j])
          IN  [k \in DOMAIN A |->
                 IF k < j THEN A[i][k]
                 ELSE IF k = j THEN a_ij
                 ELSE Sub(A[i][k], Mul(a_ij, A[j][k]))]]

\* LU(A, pivot) up to the first column of factorize()
LU_construct(pivot) ==
  /\ "LU" \in active
  /\ lu.st = "none"
  /\ lu' = Constructing(lu, pivot)
  /\ UNCHANGED <<system, active, slu, chol, vec, iter>>

\* one iteration of the column loop without the Assert on max
LU_column_unchecked(s) ==
  LET j == s.j
      found == LU_pivot_search(s.A, j, j + 1, j, Fabs(s.A[j][j]))
      argmax == found[1]
      swap == s.pivot_flag /\ argmax # j
      piv == IF swap
             THEN [s.row_pivots EXCEPT ![j] = s.row_pivots[argmax],
                                       ![argmax] = s.row_pivots[j]]
             ELSE s.row_pivots
      As == IF swap THEN Matrix_swap_row(s.A, j, argmax) ELSE s.A
  IN  [s EXCEPT !.A = LU_eliminate(As, j),
                !.row_pivots = piv,
                !.divzero = @ \/ (IsZero(As[j][j]) /\ j + 1 < n_rows(s.A)),
                !.j = j + 1,
                !.factorized = (j + 1 = n_rows(s.A)),
                !.st = IF j + 1 = n_rows(s.A) THEN "ready" ELSE "factorizing"]

\* the solver after one iteration of the column loop of factorize() ; after
\* the last one factorize() sets the flag and the constructor returns
LU_column(s) ==
  LET j == s.j
      found == LU_pivot_search(s.A, j, j + 1, j, Fabs(s.A[j][j]))
      argmax == found[1]
      max == found[2]
      swap == s.pivot_flag /\ argmax # j
      piv == IF swap
             THEN [s.row_pivots EXCEPT ![j] = s.row_pivots[argmax],
                                       ![argmax] = s.row_pivots[j]]
             ELSE s.row_pivots
      As == IF swap THEN Matrix_swap_row(s.A, j, argmax) ELSE s.A
  IN  IF s.pivot_flag /\ IsZero(max)
      THEN [s EXCEPT !.st = "failed", !.error = SingularMatrix]
      ELSE [s EXCEPT !.A = LU_eliminate(As, j),
                     !.row_pivots = piv,
                     !.divzero = @ \/ (IsZero(As[j][j]) /\ j + 1 < n_rows(s.A)),
                     !.j = j + 1,
                     !.factorized = (j + 1 = n_rows(s.A)),
                     !.st = IF j + 1 = n_rows(s.A) THEN "ready" ELSE "factorizing"]

LU_factorize_column ==
  /\ lu.st = "factorizing"
  /\ lu' = LU_column(lu)
  /\ UNCHANGED <<system, active, slu, chol, vec, iter>>

\* value -= a[j] * x[j] for j = lo .. hi-1, in that order
RECURSIVE LU_row_sub(_, _, _, _, _)
LU_row_sub(value, a_i, x, lo, hi) ==
  IF lo >= hi THEN value
  ELSE LU_row_sub(Sub(value, Mul(a_i[lo], x[lo])), a_i, x, lo + 1, hi)

\* the forward solve loop reading b[i] instead of b[row_pivots[i]]
RECURSIVE LU_forward_unpivoted(_, _, _, _, _)
LU_forward_unpivoted(A, row_pivots, b, x, i) ==
  IF i >= n_rows(A) THEN x
  ELSE LU_forward_unpivoted(A, row_pivots, b,
                            [x EXCEPT ![i] = LU_row_sub(b[i], A[i], x, 0, i)],
                            i + 1)

\* the forward solve loop with the inner loop running to j <= i, which reads
\* x[i] before it is written
RECURSIVE LU_forward_stale(_, _, _, _, _)
LU_forward_stale(A, row_pivots, b, x, i) ==
  IF i >= n_rows(A) THEN x
  ELSE LU_forward_stale(A, row_pivots, b,
                        [x EXCEPT ![i] = LU_row_sub(b[row_pivots[i]], A[i], x, 0, i + 1)],
                        i + 1)

\* the forward solve loop of solve() from row i on
RECURSIVE LU_forward(_, _, _, _, _)
LU_forward(A, row_pivots, b, x, i) ==
  IF i >= n_rows(A) THEN x
  ELSE LU_forward(A, row_pivots, b,
                  [x EXCEPT ![i] = LU_row_sub(b[row_pivots[i]], A[i], x, 0, i)],
                  i + 1)

\* the backward solve loop of solve() from row i down
RECURSIVE LU_backward(_, _, _)
LU_backward(A, x, i) ==
  IF i < 0 THEN x
  ELSE LU_backward(A,
                   [x EXCEPT ![i] = Div(LU_row_sub(x[i], A[i], x, i + 1, n_rows(A)), A[i][i])],
                   i - 1)

\* the two loops of solve(x, b)
LU_substitute(s, x, b) ==
  LU_backward(s.A, LU_forward(s.A, s.row_pivots, b, x, 0), n_rows(s.A) - 1)

\* the solver record after a solve call that returned x_out
Solved(s, b, x_in, x_out) ==
  [s EXCEPT !.b = b, !.x_in = <<>>, !.x = x_out, !.rc = "ok",
            !.again = @ \/ (s.b1 # <<>> /\ b = s.b1 /\ s.b # b),
            !.b1 = IF s.b1 = <<>> THEN b ELSE @,
            !.x1 = IF s.b1 = <<>> THEN x_out ELSE @]

\* the solver record after a solve call that threw ; the exception leaves
\* through main(), whose handlers end the program, so nothing is called after
Threw(s, b, x_in, x_out, what) ==
  [s EXCEPT !.st = "aborted", !.b = b, !.x_in = x_in, !.x = x_out, !.rc = what]

\* a solve(x, b) that clears the flag once the factors have been used
LU_solve_consuming(x, b) ==
  /\ lu.st = "ready"
  /\ lu' = IF ~lu.factorized THEN Threw(lu, b, x, x, NotFactorized)
           ELSE IF n_rows(lu.A) # Vector_size(b) THEN Threw(lu, b, x, x, DimensionMismatch)
           ELSE IF n_rows(lu.A) # Vector_size(x) THEN Threw(lu, b, x, x, DimensionMismatch)
           ELSE [Solved(lu, b, x, LU_substitute(lu, x, b)) EXCEPT !.factorized = FALSE]
  /\ UNCHANGED <<system, active, slu, chol, vec, iter>>

\* LU::solve(x, b)
LU_solve(x, b) ==
  /\ lu.st = "ready"
  /\ lu' = IF ~lu.factorized THEN Threw(lu, b, x, x, NotFactorized)
           ELSE IF n_rows(lu.A) # Vector_size(b) THEN Threw(lu, b, x, x, DimensionMismatch)
           ELSE IF n_rows(lu.A) # Vector_size(x) THEN Threw(lu, b, x, x, DimensionMismatch)
           ELSE Solved(lu, b, x, LU_substitute(lu, x, b))
  /\ UNCHANGED <<system, active, slu, chol, vec, iter>>

(***************************************************************************)
(* SparseLU  (sparse_lu.cc)                                                *)
(***************************************************************************)
\* the pivot search loop of factorize() from row k on : <<argmax, max>>
RECURSIVE SparseLU_pivot_search(_, _, _, _, _)
SparseLU_pivot_search(A, j, k, argmax, max) ==
  IF k >= n_rows(A) THEN <<argmax, max>>
  ELSE IF SparseMatrix_present(A, k, j) /\ Gt(SparseMatrix_locate(A, k, j), max)
       THEN SparseLU_pivot_search(A, j, k + 1, k, Fabs(SparseMatrix_locate(A, k, j)))
       ELSE SparseLU_pivot_search(A, j, k + 1, argmax, max)

\* max on entry to the pivot search loop
SparseLU_pivot_start(A, j) ==
  Fabs(IF SparseMatrix_present(A, j, j) THEN SparseMatrix_diagonal(A, j) ELSE Zero)

\* the loop over the entries of row j from position p on, adding
\* -(a_ij) * el.value to (i, el.column) for the columns right of j
RECURSIVE SparseLU_update_row(_, _, _, _)
SparseLU_update_row(A, i, j, p) ==
  IF p > Len(A[j]) THEN A
  ELSE LET el == A[j][p]
       IN  IF el.column > j
           THEN SparseLU_update_row(
                  SparseMatrix_add(A, i, el.column,
                                   Mul(Neg(SparseMatrix_locate(A, i, j)), el.value)),
                  i, j, p + 1)
           ELSE SparseLU_update_row(A, i, j, p + 1)

\* does the elimination of column j touch row i
SparseLU_fires(A, i, j) ==
  SparseMatrix_present(A, i, j) /\ ~IsZero(SparseMatrix_locate(A, i, j))

\* the elimination loop of factorize() for column j from row i on
RECURSIVE SparseLU_eliminate(_, _, _, _)
SparseLU_eliminate(A, j, a_jj, i) ==
  IF i >= n_rows(A) THEN A
  ELSE IF SparseLU_fires(A, i, j)
       THEN SparseLU_eliminate(
              SparseLU_update_row(
                SparseMatrix_set(A, i, j, Div(SparseMatrix_locate(A, i, j), a_jj)),
                i, j, 1),
              j, a_jj, i + 1)
       ELSE SparseLU_eliminate(A, j, a_jj, i + 1)

\* SparseLU(A, pivot) up to the first column of factorize()
SparseLU_construct(pivot) ==
  /\ "SparseLU" \in active
  /\ slu.st = "none"
  /\ slu' = Constructing(slu, pivot)
  /\ UNCHANGED <<system, active, lu, chol, vec, iter>>

\* the pivot step exchanging the rows of A and leaving row_pivots alone
SparseLU_pivot_untracked(s) ==
  LET j == s.j
      found == SparseLU_pivot_search(s.A, j, j + 1, j, SparseLU_pivot_start(s.A, j))
      argmax == found[1]
      swap == s.pivot_flag /\ argmax # j
  IN  [max |-> found[2],
       row_pivots |-> s.row_pivots,
       A |-> IF swap THEN SparseMatrix_swap_row(s.A, j, argmax) ELSE s.A]

\* rows j and argmax of column j after the pivot step of factorize()
SparseLU_pivot(s) ==
  LET j == s.j
      found == SparseLU_pivot_search(s.A, j, j + 1, j, SparseLU_pivot_start(s.A, j))
      argmax == found[1]
      swap == s.pivot_flag /\ argmax # j
  IN  [max |-> found[2],
       row_pivots |-> IF swap
                      THEN [s.row_pivots EXCEPT ![j] = s.row_pivots[argmax],
                                                ![argmax] = s.row_pivots[j]]
                      ELSE s.row_pivots,
       A |-> IF swap THEN SparseMatrix_swap_row(s.A, j, argmax) ELSE s.A]

\* does the read *A.diagonal(j) before the elimination loop go through a
\* null pointer, and is the value read used
SparseLU_null_read(s) ==
  /\ ~(s.pivot_flag /\ IsZero(SparseLU_pivot(s).max))
  /\ ~SparseMatrix_present(SparseLU_pivot(s).A, s.j, s.j)

SparseLU_null_used(s) ==
  \E i \in (s.j + 1)..(n_rows(s.A) - 1) : SparseLU_fires(SparseLU_pivot(s).A, i, s.j)

\* the solver after one iteration of the column loop of factorize() ; after
\* the last one factorize() sets the flag and the constructor returns.
\* trap : the read of an absent diagonal entry traps
SparseLU_column(s, trap) ==
  LET j == s.j
      p == SparseLU_pivot(s)
  IN  IF s.pivot_flag /\ IsZero(p.max)
      THEN [s EXCEPT !.st = "failed", !.error = SingularMatrix]
      ELSE IF trap
      THEN [s EXCEPT !.st = "crashed", !.A = p.A, !.row_pivots = p.row_pivots]
      ELSE [s EXCEPT
             !.A = IF SparseMatrix_present(p.A, j, j)
                   THEN SparseLU_eliminate(p.A, j, SparseMatrix_diagonal(p.A, j), j + 1)
                   ELSE p.A,
             !.row_pivots = p.row_pivots,
             !.divzero = @ \/ ( /\ SparseMatrix_present(p.A, j, j)
                                /\ IsZero(SparseMatrix_diagonal(p.A, j))
                                /\ \E i \in (j + 1)..(n_rows(s.A) - 1) : SparseLU_fires(p.A, i, j) ),
             !.j = j + 1,
             !.factorized = (j + 1 = n_rows(s.A)),
             !.st = IF j + 1 = n_rows(s.A) THEN "ready" ELSE "factorizing"]

SparseLU_factorize_column ==
  /\ slu.st = "factorizing"
  /\ \E trap \in IF ~SparseLU_null_read(slu) THEN {FALSE}
                  ELSE IF SparseLU_null_used(slu) THEN {TRUE}
                  ELSE BOOLEAN :
       slu' = SparseLU_column(slu, trap)
  /\ UNCHANGED <<system, active, lu, chol, vec, iter>>

\* value -= el.value * x[el.column] over the entries of a row from position
\* p on whose column is left of i (side = -1) or right of i (side = 1)
RECURSIVE SparseLU_row_sub(_, _, _, _, _, _)
SparseLU_row_sub(value, row, x, i, side, p) ==
  IF p > Len(row) THEN value
  ELSE IF (side < 0 /\ row[p].column < i) \/ (side > 0 /\ row[p].column > i)
       THEN SparseLU_row_sub(Sub(value, Mul(row[p].value, x[row[p].column])),
                             row, x, i, side, p + 1)
       ELSE SparseLU_row_sub(value, row, x, i, side, p + 1)

\* the forward solve loop ending in x[i] += value instead of x[i] = value
RECURSIVE SparseLU_forward_accumulating(_, _, _, _, _)
SparseLU_forward_accumulating(A, row_pivots, b, x, i) ==
  IF i >= n_rows(A) THEN x
  ELSE SparseLU_forward_accumulating(A, row_pivots, b,
         [x EXCEPT ![i] = Add(x[i], SparseLU_row_sub(b[row_pivots[i]], A[i], x, i, -1, 1))],
         i + 1)

\* the forward solve loop of solve() from row i on
RECURSIVE SparseLU_forward(_, _, _, _, _)
SparseLU_forward(A, row_pivots, b, x, i) ==
  IF i >= n_rows(A) THEN x
  ELSE SparseLU_forward(A, row_pivots, b,
         [x EXCEPT ![i] = SparseLU_row_sub(b[row_pivots[i]], A[i], x, i, -1, 1)],
         i + 1)

\* the backward solve loop of solve() from row i down
RECURSIVE SparseLU_backward(_, _, _)
SparseLU_backward(A, x, i) ==
  IF i < 0 THEN x
  ELSE SparseLU_backward(A,
         [x EXCEPT ![i] = Div(SparseLU_row_sub(x[i], A[i], x, i, 1, 1),
                              SparseMatrix_diagonal(A, i))],
         i - 1)

\* the two loops of solve(b, x)
SparseLU_substitute(s, x, b) ==
  SparseLU_backward(s.A, SparseLU_forward(s.A, s.row_pivots, b, x, 0), n_rows(s.A) - 1)

\* SparseLU::solve(b, x)
SparseLU_solve(x, b) ==
  /\ slu.st = "ready"
  /\ IF ~slu.factorized THEN slu' = Threw(slu, b, x, x, NotFactorized)
     ELSE IF Vector_size(b) # n_rows(slu.A) THEN slu' = Threw(slu, b, x, x, DimensionMismatch)
     ELSE IF Vector_size(x) # n_rows(slu.A) THEN slu' = Threw(slu, b, x, x, DimensionMismatch)
     ELSE IF \E i \in DOMAIN slu.A : ~SparseMatrix_present(slu.A, i, i)
          THEN slu' = [Threw(slu, b, x, x, "trap") EXCEPT !.st = "crashed"]
          ELSE slu' = Solved(slu, b, x, SparseLU_substitute(slu, x, b))
  /\ UNCHANGED <<system, active, lu, chol, vec, iter>>

(***************************************************************************)
(* LinearSolver::SparseCholesky  (lu.cc, from line 140)                    *)
(***************************************************************************)
\* sum += el.value * el.value over the entries of row j left of column j,
\* from position p on
RECURSIVE SparseCholesky_diag_sum(_, _, _, _)
SparseCholesky_diag_sum(sum, row, j, p) ==
  IF p > Len(row) THEN sum
  ELSE IF row[p].column < j
       THEN SparseCholesky_diag_sum(Add(sum, Mul(row[p].value, row[p].value)),
                                    row, j, p + 1)
       ELSE SparseCholesky_diag_sum(sum, row, j, p + 1)

\* the argument of std::sqrt at column j
SparseCholesky_presqrt(A, j) ==
  Sub(SparseMatrix_diagonal(A, j), SparseCholesky_diag_sum(Zero, A[j], j, 1))

\* the inner loop over row j for one entry a_ik of row i, from position q on
RECURSIVE SparseCholesky_match_sum(_, _, _, _)
SparseCholesky_match_sum(sum, a_ik, row_j, q) ==
  IF q > Len(row_j) THEN sum
  ELSE IF row_j[q].column = a_ik.column
       THEN SparseCholesky_match_sum(Add(sum, Mul(a_ik.value, row_j[q].value)),
                                     a_ik, row_j, q + 1)
       ELSE SparseCholesky_match_sum(sum, a_ik, row_j, q + 1)

\* the loop over row i accumulating the products on shared columns left of
\* j, from position p on
RECURSIVE SparseCholesky_dot_sum(_, _, _, _, _)
SparseCholesky_dot_sum(sum, row_i, row_j, j, p) ==
  IF p > Len(row_i) THEN sum
  ELSE IF row_i[p].column < j
       THEN SparseCholesky_dot_sum(
              SparseCholesky_match_sum(sum, row_i[p], row_j, 1),
              row_i, row_j, j, p + 1)
       ELSE SparseCholesky_dot_sum(sum, row_i, row_j, j, p + 1)

\* the loop setting the lower-diagonal components of column j from row i on
RECURSIVE SparseCholesky_lower(_, _, _)
SparseCholesky_lower(A, j, i) ==
  IF i >= n_rows(A) THEN A
  ELSE LET sum == SparseCholesky_dot_sum(Zero, A[i], A[j], j, 1)
           d == SparseMatrix_diagonal(A, j)
           value == IF SparseMatrix_present(A, i, j)
                    THEN Div(Sub(SparseMatrix_locate(A, i, j), sum), d)
                    ELSE Div(Neg(sum), d)
       IN  IF ~IsZero(Fabs(value))
           THEN SparseCholesky_lower(SparseMatrix_set(A, i, j, value), j, i + 1)
           ELSE SparseCholesky_lower(A, j, i + 1)

\* does Assert(d && *d != 0.0) at column j throw
SparseCholesky_singular(A, j) ==
  \/ ~SparseMatrix_present(A, j, j)
  \/ IsZero(SparseMatrix_diagonal(A, j))

\* the body of the column loop of factorize() for a column that passes the
\* Assert
SparseCholesky_column(A, j) ==
  SparseCholesky_lower(
    SparseMatrix_set(A, j, j, Sqrt(SparseCholesky_presqrt(A, j))), j, j + 1)

\* every std::sqrt of factorize() from column j on is exact
RECURSIVE SparseCholesky_exact(_, _)
SparseCholesky_exact(A, j) ==
  IF j >= n_rows(A) THEN TRUE
  ELSE IF SparseCholesky_singular(A, j) THEN TRUE
  ELSE IF SqrtExact(SparseCholesky_presqrt(A, j))
       THEN SparseCholesky_exact(SparseCholesky_column(A, j), j + 1)
       ELSE FALSE

\* SparseCholesky() : the constructor does not factorize
SparseCholesky_construct ==
  /\ "SparseCholesky" \in active
  /\ chol.st = "none"
  /\ chol' = [chol EXCEPT !.st = "ready"]
  /\ UNCHANGED <<system, active, lu, slu, vec, iter>>

\* the caller calls factorize() ; up to the first column
SparseCholesky_factorize ==
  /\ chol.st = "ready"
  /\ ~chol.factorized
  /\ chol' = [chol EXCEPT !.st = "factorizing", !.j = 0]
  /\ UNCHANGED <<system, active, lu, slu, vec, iter>>

\* the solver after one iteration of the column loop of factorize() ; after
\* the last one factorize() sets the flag and returns
SparseCholesky_step(s) ==
  LET j == s.j
  IN  IF SparseCholesky_singular(s.A, j)
      THEN [s EXCEPT !.st = "failed", !.error = SingularMatrix]
      ELSE [s EXCEPT
             !.A = SparseCholesky_column(s.A, j),
             !.divzero = @ \/ ( /\ j + 1 < n_rows(s.A)
                                /\ IsZero(Sqrt(SparseCholesky_presqrt(s.A, j))) ),
             !.negsqrt = @ \/ Lt(SparseCholesky_presqrt(s.A, j), Zero),
             !.j = j + 1,
             !.factorized = (j + 1 = n_rows(s.A)),
             !.st = IF j + 1 = n_rows(s.A) THEN "ready" ELSE "factorizing"]

SparseCholesky_factorize_column ==
  /\ chol.st = "factorizing"
  /\ chol' = SparseCholesky_step(chol)
  /\ UNCHANGED <<system, active, lu, slu, vec, iter>>

\* value -= el.value * x[el.column] over the entries of row i left of
\* column i, from position p on
RECURSIVE SparseCholesky_row_sub(_, _, _, _, _)
SparseCholesky_row_sub(value, row, x, i, p) ==
  IF p > Len(row) THEN value
  ELSE IF row[p].column < i
       THEN SparseCholesky_row_sub(Sub(value, Mul(row[p].value, x[row[p].column])),
                                   row, x, i, p + 1)
       ELSE SparseCholesky_row_sub(value, row, x, i, p + 1)

\* the forward solve loop of solve() from row i on
RECURSIVE SparseCholesky_forward(_, _, _, _)
SparseCholesky_forward(A, b, x, i) ==
  IF i >= n_rows(A) THEN x
  ELSE SparseCholesky_forward(A, b,
         [x EXCEPT ![i] = Div(SparseCholesky_row_sub(b[i], A[i], x, i, 1),
                              SparseMatrix_diagonal(A, i))],
         i + 1)

\* x[a_ij.column] -= a_ij.value * x[i] over the entries of row i left of
\* column i, from position p on
RECURSIVE SparseCholesky_scatter(_, _, _, _)
SparseCholesky_scatter(row, x, i, p) ==
  IF p > Len(row) THEN x
  ELSE IF row[p].column < i
       THEN SparseCholesky_scatter(row,
              [x EXCEPT ![row[p].column] = Sub(@, Mul(row[p].value, x[i]))],
              i, p + 1)
       ELSE SparseCholesky_scatter(row, x, i, p + 1)

\* the backward solve loop of solve() from row i down
RECURSIVE SparseCholesky_backward(_, _, _)
SparseCholesky_backward(A, x, i) ==
  IF i < 0 THEN x
  ELSE SparseCholesky_backward(A,
         SparseCholesky_scatter(A[i],
                                [x EXCEPT ![i] = Div(@, SparseMatrix_diagonal(A, i))],
                                i, 1),
         i - 1)

\* the two loops of solve(x, b)
SparseCholesky_substitute(s, x, b) ==
  SparseCholesky_backward(s.A, SparseCholesky_forward(s.A, b, x, 0), n_rows(s.A) - 1)

\* solve(x, b) without the Assert on the factorized flag
SparseCholesky_solve_unchecked(x, b) ==
  /\ chol.st = "ready"
  /\ IF Vector_size(b) # n_rows(chol.A) THEN chol' = Threw(chol, b, x, x, DimensionMismatch)
     ELSE IF Vector_size(x) # n_rows(chol.A) THEN chol' = Threw(chol, b, x, x, DimensionMismatch)
     ELSE IF \E i \in DOMAIN chol.A : ~SparseMatrix_present(chol.A, i, i)
          THEN chol' = [Threw(chol, b, x, x, "trap") EXCEPT !.st = "crashed"]
          ELSE chol' = Solved(chol, b, x, SparseCholesky_substitute(chol, x, b))
  /\ UNCHANGED <<system, active, lu, slu, vec, iter>>

\* SparseCholesky::solve(x, b)
SparseCholesky_solve(x, b) ==
  /\ chol.st = "ready"
  /\ IF ~chol.factorized THEN chol' = Threw(chol, b, x, x, NotFactorized)
     ELSE IF Vector_size(b) # n_rows(chol.A) THEN chol' = Threw(chol, b, x, x, DimensionMismatch)
     ELSE IF Vector_size(x) # n_rows(chol.A) THEN chol' = Threw(chol, b, x, x, DimensionMismatch)
     ELSE IF \E i \in DOMAIN chol.A : ~SparseMatrix_present(chol.A, i, i)
          THEN chol' = [Threw(chol, b, x, x, "trap") EXCEPT !.st = "crashed"]
          ELSE chol' = Solved(chol, b, x, SparseCholesky_substitute(chol, x, b))
  /\ UNCHANGED <<system, active, lu, slu, vec, iter>>

(***************************************************************************)
(* The program                                                             *)
(***************************************************************************)
\* the sets of solvers a caller builds on one system
Scenarios == {{"LU"}, {"SparseLU"}, {"SparseCholesky"}}

Init ==
  \E M \in Systems, sc \in Scenarios :
  \E explicit_zeros \in IF sc = {"SparseCholesky"} THEN BOOLEAN ELSE {FALSE} :
    /\ "SparseCholesky" \in sc => SparseCholesky_exact(SparseOf(M, explicit_zeros), 0)
    /\ system = M
    /\ active = sc
    /\ lu = Unconstructed(DenseOf(M))
    /\ slu = Unconstructed(SparseOf(M, explicit_zeros))
    /\ chol = Unconstructed(SparseOf(M, explicit_zeros))
    /\ vec = NoVector
    /\ iter = NoIterative

Next ==
  \/ \E pivot \in BOOLEAN : LU_construct(pivot)
  \/ LU_factorize_column
  \/ \E x \in XArgs, b \in BArgs : LU_solve(x, b)
  \/ \E pivot \in BOOLEAN : SparseLU_construct(pivot)
  \/ SparseLU_factorize_column
  \/ \E x \in XArgs, b \in BArgs : SparseLU_solve(x, b)
  \/ SparseCholesky_construct
  \/ SparseCholesky_factorize
  \/ SparseCholesky_factorize_column
  \/ \E x \in XArgs, b \in BArgs : SparseCholesky_solve(x, b)

Spec == Init /\ [][Next]_vars

(***************************************************************************)
(* SparseCholesky on symmetric positive-definite systems                   *)
(***************************************************************************)
SpdIdx == 0..(NSpd - 1)

\* the positions below the diagonal
SpdLower == {p \in SpdIdx \X SpdIdx : p[1] > p[2]}

\* lower-triangular integer factors with a unit diagonal
SpdFactors ==
  {[i \in SpdIdx |-> [j \in SpdIdx |->
      IF i = j THEN 1 ELSE IF i > j THEN f[<<i, j>>] ELSE 0]] : f \in [SpdLower -> Vals]}

RECURSIVE SpdDot(_, _, _, _)
SpdDot(L, i, j, k) ==
  IF k >= NSpd THEN 0 ELSE L[i][k] * L[j][k] + SpdDot(L, i, j, k + 1)

\* L * L^T : symmetric and positive definite, since L is nonsingular
SpdProduct(L) == [i \in SpdIdx |-> [j \in SpdIdx |-> SpdDot(L, i, j, 0)]]

\* the symmetric positive-definite matrices the caller assembles
SpdSystems == {SpdProduct(L) : L \in SpdFactors}

\* the right-hand sides and the output vector the caller passes to solve
SpdRhs == {[i \in SpdIdx |-> FromInt(i + 1)], Vector_fill(NSpd, One)}

SpdXArgs == {Vector_fill(NSpd, Zero)}

InitSPD ==
  \E M \in SpdSystems, explicit_zeros \in BOOLEAN :
    /\ SparseCholesky_exact(SparseOf(M, explicit_zeros), 0)
    /\ system = M
    /\ active = {"SparseCholesky"}
    /\ lu = Unconstructed(DenseOf(M))
    /\ slu = Unconstructed(SparseOf(M, explicit_zeros))
    /\ chol = Unconstructed(SparseOf(M, explicit_zeros))
    /\ vec = NoVector
    /\ iter = NoIterative

NextSPD ==
  \/ SparseCholesky_construct
  \/ SparseCholesky_factorize
  \/ SparseCholesky_factorize_column
  \/ \E x \in SpdXArgs, b \in SpdRhs : SparseCholesky_solve(x, b)

SpecSPD == InitSPD /\ [][NextSPD]_vars

(***************************************************************************)
(* Vector operations  (vector.h)                                           *)
(***************************************************************************)
\* size_t arithmetic
SizeModulus == 2 ^ SizeBits

\* what zero_division_error and mismatched_size_error throw
ZeroDivision == "Zero division encountered."
MismatchedSizes == "Mismatched sizes encountered."

\* the elements of the operands
VecVals == {Zero, One, FromInt(-2)}

\* the operands : every Vector of at most MaxLen elements
Vectors == UNION {[0..(n - 1) -> VecVals] : n \in 0..MaxLen}

\* the element-wise operators that return a new Vector, those that work on
\* *this, and the operators taking a double
ConstOps == {"operator+", "operator-", "operator*", "operator/"}

InPlaceOps == {"operator+=", "operator-=", "operator*="}

ScalarOps == {"operator/(double)", "operator/=(double)"}

\* Vector& operator/(const Vector&), the overload chosen for a left operand
\* that is not const
InPlaceDivide == "operator/ (non-const)"

\* swap(std::vector<double>) and to_string()
SwapStl == "swap(std::vector<double>)"
Vector_to_string == "to_string"

\* the operands of a Vector operation before the call
VectorOperands(x, y) ==
  [pc |-> "idle",       \* idle, loop, print, returned, threw, crashed
   op |-> "none",       \* the operation called
   x |-> x,             \* *this
   y |-> y,             \* other
   a |-> Zero,          \* value, for the operators taking a double
   x0 |-> x,            \* *this on entry
   y0 |-> y,            \* other on entry
   r |-> <<>>,          \* the Vector returned
   c |-> Zero,          \* the double returned by dot
   rc |-> "none",       \* none, ok, trap, or what was thrown
   i |-> 0,             \* the index of the loop of the non-const operator/
                        \* and of the loop of to_string()
   touched |-> FALSE,   \* history: an element of x or y was read or written
   divided |-> FALSE,   \* history: an element was divided
   overrun |-> FALSE]   \* history: an index at or past size() was used

\* one element of the result of an element-wise operator
Vector_element(op, a, b) ==
  IF op \in {"operator+", "operator+="} THEN Add(a, b)
  ELSE IF op \in {"operator-", "operator-="} THEN Sub(a, b)
  ELSE IF op \in {"operator*", "operator*="} THEN Mul(a, b)
  ELSE Div(a, b)

\* has_zero_elements()
Vector_has_zero_elements(v) == \E i \in DOMAIN v : IsZero(v[i])

\* the loop of dot() from index i on
RECURSIVE Vector_dot(_, _, _, _)
Vector_dot(c, x, y, i) ==
  IF i >= Vector_size(x) THEN c
  ELSE Vector_dot(Add(c, Mul(x[i], y[i])), x, y, i + 1)

\* the record after a call that threw before its loop
Vector_threw(v, op, what, read) ==
  [v EXCEPT !.pc = "threw", !.op = op, !.rc = what, !.touched = read]

\* an element-wise operator with the size test m_data.size() > other.size()
Vector_binary_loose(op) ==
  /\ vec.pc = "idle"
  /\ LET x == vec.x
         y == vec.y
         z == [i \in DOMAIN x |-> Vector_element(op, x[i], y[i])]
     IN  vec' =
           IF Vector_size(x) > Vector_size(y)
           THEN Vector_threw(vec, op, MismatchedSizes, FALSE)
           ELSE [vec EXCEPT !.pc = "returned", !.op = op, !.rc = "ok",
                            !.x = IF op \in InPlaceOps THEN z ELSE x,
                            !.r = z,
                            !.touched = Vector_size(x) > 0]
  /\ UNCHANGED <<system, active, lu, slu, chol, iter>>

\* operator+, -, *, / (const), operator+=, -=, *= and dot
Vector_binary(op) ==
  /\ vec.pc = "idle"
  /\ LET x == vec.x
         y == vec.y
         z == [i \in DOMAIN x |-> Vector_element(op, x[i], y[i])]
     IN  vec' =
           IF Vector_size(x) # Vector_size(y)
           THEN Vector_threw(vec, op, MismatchedSizes, FALSE)
           ELSE IF op = "operator/" /\ Vector_has_zero_elements(y)
           THEN Vector_threw(vec, op, ZeroDivision, TRUE)
           ELSE IF op = "dot"
           THEN [vec EXCEPT !.pc = "returned", !.op = op, !.rc = "ok",
                            !.c = Vector_dot(Zero, x, y, 0),
                            !.touched = Vector_size(x) > 0]
           ELSE [vec EXCEPT !.pc = "returned", !.op = op, !.rc = "ok",
                            !.x = IF op \in InPlaceOps THEN z ELSE x,
                            !.r = z,
                            !.touched = Vector_size(x) > 0,
                            !.divided = op = "operator/" /\ Vector_size(x) > 0]
  /\ UNCHANGED <<system, active, lu, slu, chol, iter>>

\* operator/(double) and operator/=(double) without the test of value
Vector_scalar_unchecked(op, value) ==
  /\ vec.pc = "idle"
  /\ LET x == vec.x
         z == [i \in DOMAIN x |-> Div(x[i], value)]
     IN  vec' = [vec EXCEPT !.pc = "returned", !.op = op, !.a = value, !.rc = "ok",
                            !.x = IF op = "operator/=(double)" THEN z ELSE x,
                            !.r = z,
                            !.touched = Vector_size(x) > 0,
                            !.divided = Vector_size(x) > 0]
  /\ UNCHANGED <<system, active, lu, slu, chol, iter>>

\* operator/(double) and operator/=(double)
Vector_scalar(op, value) ==
  /\ vec.pc = "idle"
  /\ LET x == vec.x
         z == [i \in DOMAIN x |-> Div(x[i], value)]
     IN  vec' =
           IF IsZero(value)
           THEN [Vector_threw(vec, op, ZeroDivision, FALSE) EXCEPT !.a = value]
           ELSE [vec EXCEPT !.pc = "returned", !.op = op, !.a = value, !.rc = "ok",
                            !.x = IF op = "operator/=(double)" THEN z ELSE x,
                            !.r = z,
                            !.touched = Vector_size(x) > 0,
                            !.divided = Vector_size(x) > 0]
  /\ UNCHANGED <<system, active, lu, slu, chol, iter>>

\* the non-const operator/ up to its loop
Vector_divide_call ==
  /\ vec.pc = "idle"
  /\ vec' =
       IF Vector_size(vec.x) # Vector_size(vec.y)
       THEN Vector_threw(vec, InPlaceDivide, MismatchedSizes, FALSE)
       ELSE IF Vector_has_zero_elements(vec.y)
       THEN Vector_threw(vec, InPlaceDivide, ZeroDivision, TRUE)
       ELSE [vec EXCEPT !.pc = "loop", !.op = InPlaceDivide, !.i = 0]
  /\ UNCHANGED <<system, active, lu, slu, chol, iter>>

\* one pass through  for (size_t i = 0; m_data.size(); ++i)  of the
\* non-const operator/ : the condition is the size, so the loop ends only
\* for an empty Vector.  m_data[i] with i >= size() is undefined : it traps,
\* or it reaches memory past the elements and the loop goes on.
Vector_divide_step ==
  /\ vec.pc = "loop"
  /\ LET n == Vector_size(vec.x)
         i == vec.i
     IN  IF n = 0
         THEN vec' = [vec EXCEPT !.pc = "returned", !.rc = "ok", !.r = vec.x]
         ELSE IF i < n
         THEN vec' = [vec EXCEPT !.x = [@ EXCEPT ![i] = Div(@, vec.y[i])],
                                 !.i = i + 1,
                                 !.touched = TRUE, !.divided = TRUE]
         ELSE \E trap \in IF i < n + MaxOverrun THEN BOOLEAN ELSE {TRUE} :
                vec' = IF trap
                       THEN [vec EXCEPT !.pc = "crashed", !.rc = "trap",
                                        !.overrun = TRUE]
                       ELSE [vec EXCEPT !.i = i + 1, !.overrun = TRUE]
  /\ UNCHANGED <<system, active, lu, slu, chol, iter>>

\* swap(std::vector<double> other) : the parameter is passed by value, so
\* other is a copy of the caller's vector ; m_data.swap(other) gives *this
\* the elements of the copy and the copy those of *this, and the copy is
\* destroyed on return.  The caller's vector is not reached.
Vector_swap_stl ==
  /\ vec.pc = "idle"
  /\ LET other == vec.y
     IN  vec' = [vec EXCEPT !.pc = "returned", !.op = SwapStl, !.rc = "ok",
                            !.x = other,
                            !.touched = TRUE]
  /\ UNCHANGED <<system, active, lu, slu, chol, iter>>

\* to_string() up to its loop
Vector_to_string_call ==
  /\ vec.pc = "idle"
  /\ vec' = [vec EXCEPT !.pc = "print", !.op = Vector_to_string, !.i = 0]
  /\ UNCHANGED <<system, active, lu, slu, chol, iter>>

\* one pass through  for (size_t i = 0; i < m_data.size() - 1; ++i)  of
\* to_string(), or the m_data.back() after it.  The bound is computed in
\* size_t, so for an empty Vector it is the largest size_t.  m_data[i] with
\* i >= size() and back() of an empty vector are undefined : they trap, or
\* they reach memory past the elements and to_string() goes on.
Vector_to_string_step ==
  /\ vec.pc = "print"
  /\ LET n == Vector_size(vec.x)
         i == vec.i
         bound == (n - 1) % SizeModulus
     IN  IF i < bound /\ i < n
         THEN vec' = [vec EXCEPT !.i = i + 1, !.touched = TRUE]
         ELSE IF i < bound
         THEN \E trap \in BOOLEAN :
                vec' = IF trap
                       THEN [vec EXCEPT !.pc = "crashed", !.rc = "trap",
                                        !.overrun = TRUE]
                       ELSE [vec EXCEPT !.i = i + 1, !.overrun = TRUE]
         ELSE IF n > 0
         THEN vec' = [vec EXCEPT !.pc = "returned", !.rc = "ok", !.r = vec.x,
                                 !.touched = TRUE]
         ELSE \E trap \in BOOLEAN :
                vec' = IF trap
                       THEN [vec EXCEPT !.pc = "crashed", !.rc = "trap",
                                        !.overrun = TRUE]
                       ELSE [vec EXCEPT !.pc = "returned", !.rc = "ok",
                                        !.overrun = TRUE]
  /\ UNCHANGED <<system, active, lu, slu, chol, iter>>

\* a run of one Vector operation on two operands
InitVector ==
  \E x \in Vectors, y \in Vectors :
    /\ system = <<>>
    /\ active = {}
    /\ lu = Unconstructed(<<>>)
    /\ slu = Unconstructed(<<>>)
    /\ chol = Unconstructed(<<>>)
    /\ vec = VectorOperands(x, y)
    /\ iter = NoIterative

NextVector ==
  \/ \E op \in ConstOps \cup InPlaceOps \cup {"dot"} : Vector_binary(op)
  \/ \E op \in ScalarOps, value \in VecVals : Vector_scalar(op, value)
  \/ Vector_divide_call
  \/ Vector_divide_step
  \/ Vector_swap_stl
  \/ Vector_to_string_call
  \/ Vector_to_string_step

SpecVector == InitVector /\ [][NextVector]_vars

(***************************************************************************)
(* Iterative solvers : the solve call shared by Jacobi, Gauss-Seidel, SOR, *)
(* SSOR and CG  (linear_solver.h ; the loop itself is given by the         *)
(* description of the shared state machine)                                *)
(***************************************************************************)
\* what throw_convergence_error throws
ConvergenceError == "ConvergenceError"

\* the convergence metric of a sweep, against Options::tolerance
Metrics == {"below", "equal", "above"}

\* an iterative solver constructed with Options whose max_iterations is
\* max_iterations, before solve is called
IterativeConstructed(max_iterations) ==
  [pc |-> "idle",        \* idle, Initial, Swept, Iterating, Converged, Fail, threw
   max_iterations |-> max_iterations,
   guess |-> FALSE,      \* x on entry is the caller's guess, not zero
   iteration |-> 0,      \* the iteration count, a size_t
   sweeps |-> 0,         \* history: the sweeps made
   metric |-> "none",    \* the metric of the last sweep
   rc |-> "none"]        \* none, ok, or what was thrown

\* solve(x, b) up to Initial : the dimensions are checked up front
Iterative_solve(sizes_match, guess) ==
  /\ iter.pc = "idle"
  /\ iter' = IF sizes_match
             THEN [iter EXCEPT !.pc = "Initial", !.guess = guess, !.iteration = 0]
             ELSE [iter EXCEPT !.pc = "threw", !.rc = DimensionMismatch]
  /\ UNCHANGED <<system, active, lu, slu, chol, vec>>

\* compute residual/update, measure convergence metric
Iterative_sweep(metric) ==
  /\ iter.pc \in {"Initial", "Iterating"}
  /\ iter' = [iter EXCEPT !.pc = "Swept", !.metric = metric, !.sweeps = @ + 1]
  /\ UNCHANGED <<system, active, lu, slu, chol, vec>>

\* check metric < tolerance -> Converged, else increment the iteration count
\* and check iteration == max_iterations -> Fail
Iterative_check ==
  /\ iter.pc = "Swept"
  /\ LET iteration == (iter.iteration + 1) % SizeModulus
     IN  iter' = IF iter.metric = "below"
                 THEN [iter EXCEPT !.pc = "Converged", !.rc = "ok"]
                 ELSE IF iteration = iter.max_iterations
                 THEN [iter EXCEPT !.pc = "Fail", !.rc = ConvergenceError,
                                   !.iteration = iteration]
                 ELSE [iter EXCEPT !.pc = "Iterating", !.iteration = iteration]
  /\ UNCHANGED <<system, active, lu, slu, chol, vec>>

InitIterative ==
  \E max_iterations \in 0..MaxIterations :
    /\ system = <<>>
    /\ active = {}
    /\ lu = Unconstructed(<<>>)
    /\ slu = Unconstructed(<<>>)
    /\ chol = Unconstructed(<<>>)
    /\ vec = NoVector
    /\ iter = IterativeConstructed(max_iterations)

NextIterative ==
  \/ \E sizes_match \in BOOLEAN, guess \in BOOLEAN : Iterative_solve(sizes_match, guess)
  \/ \E metric \in Metrics : Iterative_sweep(metric)
  \/ Iterative_check

SpecIterative == InitIterative /\ [][NextIterative]_vars

(***************************************************************************)
(* Reference notions the properties are stated with                        *)
(***************************************************************************)
RowPermutations == {p \in [Idx -> Idx] : \A a, b \in Idx : a # b => p[a] # p[b]}

Parity(p) ==
  IF Cardinality({q \in Idx \X Idx : q[1] < q[2] /\ p[q[1]] > p[q[2]]}) % 2 = 0
  THEN 1 ELSE -1

RECURSIVE DiagonalProduct(_, _, _)
DiagonalProduct(M, p, i) ==
  IF i >= N THEN 1 ELSE M[i][p[i]] * DiagonalProduct(M, p, i + 1)

RECURSIVE LeibnizSum(_, _)
LeibnizSum(M, ps) ==
  IF ps = {} THEN 0
  ELSE LET p == CHOOSE q \in ps : TRUE
       IN  Parity(p) * DiagonalProduct(M, p, 0) + LeibnizSum(M, ps \ {p})

\* the determinant of an integer matrix
Det(M) == LeibnizSum(M, RowPermutations)

RECURSIVE RowTimes(_, _, _)
RowTimes(row, x, j) ==
  IF j >= N THEN Zero ELSE Add(Mul(FromInt(row[j]), x[j]), RowTimes(row, x, j + 1))

\* the product of an integer matrix and a vector
Times(M, x) == [i \in Idx |-> RowTimes(M[i], x, 0)]

\* the right-hand side whose entries are all different
Ramp == [i \in Idx |-> FromInt(i + 1)]

\* dense LU running its constructor to the end
RECURSIVE LU_run(_)
LU_run(s) == IF s.st = "factorizing" THEN LU_run(LU_column(s)) ELSE s

\* the dense LU solver, with pivoting, a caller gets for the system
DenseLU == LU_run(Constructing(Unconstructed(DenseOf(system)), TRUE))

\* a step is a solve call on the solver that goes from s to t
SolveCall(s, t) == s.st = "ready" /\ t.st \in {"ready", "aborted", "crashed"} /\ t # s

(***************************************************************************)
(* Properties                                                              *)
(***************************************************************************)
\* C1 : dense LU with pivoting accepts every nonsingular matrix, and the x
\* its solve returns for b satisfies A_original * x = b.
C1_LUSolves ==
  /\ (lu.pivot_flag /\ Det(system) # 0) => lu.st # "failed"
  /\ (lu.pivot_flag /\ lu.rc = "ok") => Times(system, lu.x) = lu.b

\* a solve of the right-hand side 1, 2, .. by a factorization that swapped rows
C1_Witness ==
  /\ lu.pivot_flag /\ lu.rc = "ok"
  /\ lu.row_pivots[0] # 0
  /\ lu.b = Ramp

\* C2 : on the same entries dense LU and SparseLU, both with pivoting,
\* either both fail with SingularMatrix or both succeed and return the same x.
C2_DenseSparseAgree ==
  (slu.pivot_flag /\ slu.st \in {"ready", "failed"}) =>
     /\ (slu.st = "failed") <=> (DenseLU.st = "failed")
     /\ slu.rc = "ok" =>
          slu.x = LU_substitute(DenseLU, Vector_fill(N, Zero), slu.b)

\* C3 : SparseLU with pivoting raises SingularMatrix at column j only when
\* every entry (k, j), k >= j, is absent or zero, and never rejects a
\* nonsingular matrix.
C3_SparseSingularOnlyOnZeroColumn ==
  /\ slu.st = "failed" =>
       \A k \in slu.j..(N - 1) : IsZero(SparseMatrix_value(slu.A, k, slu.j))
  /\ (slu.pivot_flag /\ Det(system) # 0) => slu.st # "failed"

\* C4 : dense LU with pivoting on a singular matrix fails with
\* SingularMatrix and never sets the factorized flag.
C4_SingularRejected ==
  (lu.pivot_flag /\ Det(system) = 0) =>
     /\ ~lu.factorized
     /\ lu.st # "ready"
     /\ lu.st = "failed" => lu.error = SingularMatrix

\* a singular matrix rejected at a column after the first
C4_Witness ==
  /\ lu.pivot_flag /\ Det(system) = 0
  /\ lu.st = "failed" /\ lu.error = SingularMatrix
  /\ lu.j > 0

\* C5 : for either value of the pivot flag, neither dense nor sparse LU
\* factorization computes l_ij = a_ij / a_jj with a zero pivot a_jj.
C5_NoZeroPivotDivision == ~lu.divzero /\ ~slu.divzero

\* what C6 says of one solve call
C6_Call(s, t) ==
  SolveCall(s, t) =>
    /\ t.rc \in {"ok", "trap", NotFactorized, DimensionMismatch}
    /\ t.rc \in {NotFactorized, DimensionMismatch}
         <=> (~s.factorized \/ Vector_size(t.b) # N \/ Vector_size(t.x) # N)
    /\ t.rc \in {NotFactorized, DimensionMismatch} => t.x = t.x_in

\* C6 : solve on a direct solver throws a precondition error whenever the
\* factorized flag is false or b or x has the wrong size, and x is then as it
\* was on entry.
C6_SolvePreconditions ==
  [][C6_Call(lu, lu') /\ C6_Call(slu, slu') /\ C6_Call(chol, chol')]_vars

\* a solve on an unfactorized solver with vectors of the right size
C6_Witness ==
  /\ chol.rc = NotFactorized
  /\ ~chol.factorized
  /\ Vector_size(chol.b) = N /\ Vector_size(chol.x) = N
  /\ chol.x = chol.x_in

\* C7 : a solve with the right-hand side of the first solve returns the x the
\* first solve returned, whatever was solved in between.
C7_SolveIdempotent ==
  \A s \in {lu, slu, chol} : (s.rc = "ok" /\ s.b = s.b1) => s.x = s.x1

\* the first right-hand side solved again after another one
C7_Witness == lu.again /\ lu.rc = "ok" /\ lu.b = lu.b1

\* C8 : every constructed direct solver has its factorized flag set.
C8_EagerFactorization ==
  \A s \in {lu, slu, chol} : s.st = "ready" => s.factorized

\* C9 : SparseCholesky never completes factorization with a zero diagonal
\* entry stored.
C9_NoZeroDiagonal ==
  chol.factorized =>
    \A i \in Idx : /\ SparseMatrix_present(chol.A, i, i)
                   /\ ~IsZero(SparseMatrix_diagonal(chol.A, i))

\* C10 : SparseCholesky never completes factorization of a matrix for which
\* the argument of the square root was negative at some column.
C10_NotPositiveDefiniteRejected == chol.negsqrt => ~chol.factorized

\* the entry (i, j) of L * L^T for the lower factor L stored in A, from
\* column k on
RECURSIVE FactorDot(_, _, _, _)
FactorDot(A, i, j, k) ==
  IF k > j THEN Zero
  ELSE Add(Mul(SparseMatrix_value(A, i, k), SparseMatrix_value(A, j, k)),
           FactorDot(A, i, j, k + 1))

\* C11 : after SparseCholesky::factorize on a symmetric positive-definite
\* system, the diagonal and the entries below it hold the Cholesky factor :
\* L * L^T is the system that was handed in.
C11_CholeskyFactor ==
  chol.factorized =>
    \A i \in DOMAIN chol.A : \A j \in 0..i :
      FactorDot(chol.A, i, j, 0) = FromInt(system[i][j])

\* C12 : on a symmetric positive-definite system, the x SparseCholesky's
\* solve returns for b is the x dense LU's solve returns for b.
C12_CholeskyAgreesWithLU ==
  chol.rc = "ok" =>
    chol.x = LU_substitute(DenseLU, Vector_fill(NSpd, Zero), chol.b)

\* the operations on two Vectors that C13 is about
C13_Ops == ConstOps \cup InPlaceOps \cup {"dot", InPlaceDivide}

\* C13 : an element-wise operation or dot on two Vectors of different
\* lengths throws the size-mismatch error with no element read or written,
\* *this as it was, and nothing returned.
C13_SizeMismatchFailsFast ==
  (vec.pc \notin {"none", "idle"} /\ vec.op \in C13_Ops
     /\ Vector_size(vec.x0) # Vector_size(vec.y)) =>
    /\ vec.pc = "threw"
    /\ vec.rc = MismatchedSizes
    /\ ~vec.touched
    /\ vec.x = vec.x0
    /\ vec.r = <<>>

\* an in-place sum of a non-empty Vector and a longer one
C13_Witness ==
  /\ vec.pc = "threw" /\ vec.op = "operator+=" /\ vec.rc = MismatchedSizes
  /\ Vector_size(vec.x0) > 0 /\ Vector_size(vec.y) > Vector_size(vec.x0)

\* a division that has to throw ZeroDivision did so, before dividing
C14_Threw ==
  /\ vec.pc = "threw"
  /\ vec.rc = ZeroDivision
  /\ ~vec.divided
  /\ vec.x = vec.x0
  /\ vec.r = <<>>

\* C14 as stated : division by a zero double, and element-wise division by a
\* Vector with a zero element, throw the zero-division error before any
\* element is divided.
C14_ZeroDivisionFailsFast ==
  vec.pc \notin {"none", "idle"} =>
    /\ (vec.op \in ScalarOps /\ IsZero(vec.a)) => C14_Threw
    /\ (vec.op \in {"operator/", InPlaceDivide} /\ Vector_has_zero_elements(vec.y))
         => C14_Threw

\* C14 amended : the same, for a divisor Vector of the length of *this ; a
\* divisor of another length gets the size-mismatch error, zero or not.
C14_ZeroDivisionFailsFastEqualLength ==
  vec.pc \notin {"none", "idle"} =>
    /\ (vec.op \in ScalarOps /\ IsZero(vec.a)) => C14_Threw
    /\ (vec.op \in {"operator/", InPlaceDivide} /\ Vector_has_zero_elements(vec.y)
          /\ Vector_size(vec.y) = Vector_size(vec.x0)) => C14_Threw

\* a non-empty Vector divided in place by a Vector of its length with a zero
C14_Witness ==
  /\ vec.op = InPlaceDivide /\ vec.rc = ZeroDivision
  /\ Vector_size(vec.x0) > 0 /\ Vector_size(vec.y) = Vector_size(vec.x0)
  /\ vec.x = vec.x0

\* C15 : the non-const operator/ on a divisor of equal length without zeros
\* uses no index at or past size(), does not crash, and returns with every
\* element i equal to x_i / y_i.
C15_InPlaceDivideTerminates ==
  (vec.pc \notin {"none", "idle", "threw"} /\ vec.op = InPlaceDivide) =>
    /\ ~vec.overrun
    /\ vec.pc # "crashed"
    /\ vec.i <= Vector_size(vec.x0)
    /\ vec.i = Vector_size(vec.x0) =>
         \A k \in DOMAIN vec.x0 : vec.x[k] = Div(vec.x0[k], vec.y[k])

\* C16 : an iterative solve call makes at most max_iterations sweeps, is
\* Converged only on a metric below the tolerance, and is Fail only when the
\* iteration count equals max_iterations, for every max_iterations, 0
\* included.
C16_IterativeTerminates ==
  iter.pc \notin {"none", "idle", "threw"} =>
    /\ iter.sweeps <= iter.max_iterations
    /\ iter.pc = "Converged" => iter.metric = "below"
    /\ iter.pc = "Fail" => iter.iteration = iter.max_iterations

\* the lowest of the rows j..n-1 of A whose entry in column j has the largest
\* magnitude
Largest(A, j) ==
  CHOOSE r \in j..(n_rows(A) - 1) :
    /\ \A k \in j..(n_rows(A) - 1) : ~Gt(Fabs(A[k][j]), Fabs(A[r][j]))
    /\ \A k \in j..(r - 1) : Gt(Fabs(A[r][j]), Fabs(A[k][j]))

\* C17 : with pivoting enabled, a column step of the dense factorization
\* that goes through puts at position j the row whose column-j entry has the
\* largest magnitude among the rows j..n-1, the lowest such row when several
\* are tied ; no entry of column j in those rows is larger in magnitude than
\* the new diagonal entry.
C17_PivotLargest ==
  [][(lu.st = "factorizing" /\ lu.pivot_flag /\ lu'.j = lu.j + 1) =>
       LET j == lu.j
           r == Largest(lu.A, j)
       IN  /\ lu'.A[j] = lu.A[r]
           /\ lu'.row_pivots[j] = lu.row_pivots[r]
           /\ \A k \in j..(n_rows(lu.A) - 1) :
                 ~Gt(Fabs(lu.A[k][j]), Fabs(lu'.A[j][j]))]_vars

\* column 0 holds 1 and -1, tied in magnitude, and row 0 stayed in place
C17_Witness ==
  /\ lu.pivot_flag
  /\ lu.j >= 1
  /\ system[0][0] = 1
  /\ system[1][0] = -1
  /\ lu.row_pivots[0] = 0
  /\ lu.A[0] = DenseOf(system)[0]

\* the sparse matrix S written out as a dense one, absent entries as zeros
Dense(S) == [i \in DOMAIN S |-> [k \in DOMAIN S |-> SparseMatrix_value(S, i, k)]]

\* C18 : with pivoting enabled, a column step of the SparseLU factorization
\* puts at position j the row the dense pivot search picks on the same
\* entries : the row of j..n-1 whose entry in column j is largest in
\* magnitude, the first such row on a tie ; it reports a singular matrix
\* only when all those entries are zero or absent.
C18_SparsePivotAsDense ==
  [][(slu.st = "factorizing" /\ slu.pivot_flag /\ slu' # slu) =>
       LET j == slu.j
           D == Dense(slu.A)
           found == LU_pivot_search(D, j, j + 1, j, Fabs(D[j][j]))
       IN  IF IsZero(found[2])
           THEN slu'.st = "failed"
           ELSE /\ slu'.st # "failed"
                /\ slu'.row_pivots[j] = slu.row_pivots[found[1]]]_vars

\* what a solve call from solver state s to t leaves alone
C19_Frame(s, t) ==
  SolveCall(s, t) =>
    /\ t.A = s.A
    /\ t.row_pivots = s.row_pivots
    /\ t.pivot_flag = s.pivot_flag
    /\ t.factorized = s.factorized
    /\ t.j = s.j
    /\ t.b \in BArgs \cup SpdRhs

\* C19 : a solve call on LU, SparseLU or SparseCholesky leaves the factored
\* matrix, the row pivots, the pivot flag and the factorized flag as they
\* were, and the right-hand side it was given is the one the caller passed ;
\* the system of the caller and the other solvers are not touched either.
C19_SolveReadsOnly ==
  [][/\ C19_Frame(lu, lu')
     /\ C19_Frame(slu, slu')
     /\ C19_Frame(chol, chol')
     /\ (SolveCall(lu, lu') \/ SolveCall(slu, slu') \/ SolveCall(chol, chol'))
          => system' = system]_vars

\* a solve call returned x, and the solver still holds the factors and the
\* row pivots factorize() produced, here with rows 0 and 1 exchanged
C19_Witness ==
  /\ lu.rc = "ok"
  /\ lu.factorized
  /\ lu.pivot_flag
  /\ lu.row_pivots[0] = 1
  /\ lu.A = DenseLU.A
  /\ lu.row_pivots = DenseLU.row_pivots
  /\ lu.x # Vector_fill(N, Zero)

\* the rows of A in the order p : position i holds row p[i]
Permuted(A, p) == [i \in DOMAIN A |-> A[p[i]]]

Identity(A) == [i \in DOMAIN A |-> i]

IsPermutation(p) == \A r \in DOMAIN p : \E i \in DOMAIN p : p[i] = r

\* the eliminations of columns j .. upto-1 with no row exchanged
RECURSIVE LU_replay(_, _, _)
LU_replay(A, j, upto) ==
  IF j >= upto THEN A ELSE LU_replay(LU_eliminate(A, j), j + 1, upto)

RECURSIVE SparseLU_replay(_, _, _)
SparseLU_replay(A, j, upto) ==
  IF j >= upto THEN A
  ELSE SparseLU_replay(
         IF SparseMatrix_present(A, j, j)
         THEN SparseLU_eliminate(A, j, SparseMatrix_diagonal(A, j), j + 1)
         ELSE A,
         j + 1, upto)

\* what C20 says of one solver : s, the matrix A0 it was given
C20_Tracks(s, A0, replayed) ==
  s.st # "none" =>
    /\ IsPermutation(s.row_pivots)
    /\ (s.st = "factorizing" /\ s.j = 0) => s.row_pivots = Identity(A0)
    /\ ~s.pivot_flag => s.row_pivots = Identity(A0)
    /\ s.A = replayed

\* C20 : from the start of factorize() on, in dense and in sparse LU,
\* row_pivots is a permutation of 0..n-1, the identity before the first
\* column and for good when pivoting is disabled, and position i of A holds
\* the row of the original matrix numbered row_pivots[i] : A is what the
\* eliminations done so far make of the original rows taken in that order.
C20_RowPivotsTrackRows ==
  /\ C20_Tracks(lu, DenseOf(system),
                LU_replay(Permuted(DenseOf(system), lu.row_pivots), 0, lu.j))
  /\ C20_Tracks(slu, SparseOf(system, FALSE),
                SparseLU_replay(Permuted(SparseOf(system, FALSE), slu.row_pivots), 0, slu.j))

\* SparseLU exchanged rows 0 and 1 and finished the factorization
C20_Witness ==
  /\ slu.st = "ready"
  /\ slu.pivot_flag
  /\ slu.row_pivots[0] = 1
  /\ slu.row_pivots[1] = 0
  /\ slu.A # SparseLU_replay(SparseOf(system, FALSE), 0, N)

\* contents of x on entry to a solve on A that show in the result as soon as
\* any element of them is read
Poisoned(A) == Vector_fill(n_rows(A), NaN)

\* C21 : the x a solve call of LU, SparseLU or SparseCholesky returns does
\* not depend on the contents of x on entry : whichever x the caller passed,
\* the call returns what the same factors, row pivots and b give from an x
\* holding NaN everywhere, so no element of x is read before it is written.
C21_SolveIgnoresGuess ==
  [][/\ (lu'.rc = "ok" /\ SolveCall(lu, lu')) =>
          lu'.x = LU_substitute(lu, Poisoned(lu.A), lu'.b)
     /\ (slu'.rc = "ok" /\ SolveCall(slu, slu')) =>
          slu'.x = SparseLU_substitute(slu, Poisoned(slu.A), slu'.b)
     /\ (chol'.rc = "ok" /\ SolveCall(chol, chol')) =>
          chol'.x = SparseCholesky_substitute(chol, Poisoned(chol.A), chol'.b)]_vars

\* SparseLU returned a finite, nonzero x on a matrix with an entry below the
\* diagonal, so that the forward loop read x[0] ; the same x comes out of
\* entry contents 1 and of entry contents NaN
C21_Witness ==
  /\ slu.rc = "ok"
  /\ system[1][0] # 0
  /\ \A i \in Idx : IsFinite(slu.x[i]) /\ ~IsZero(slu.x[i])
  /\ slu.x = SparseLU_substitute(slu, Vector_fill(N, One), slu.b)
  /\ slu.x = SparseLU_substitute(slu, Vector_fill(N, NaN), slu.b)

\* C22 : after v.swap(s) with s an STL vector, v holds the elements s had
\* and s holds the elements v had.
C22_SwapExchangesBoth ==
  (vec.pc = "returned" /\ vec.op = SwapStl) =>
    /\ vec.x = vec.y0
    /\ vec.y = vec.x0

\* C23 : to_string() uses no index at or past size(), takes back() of no
\* empty vector and does not crash, whatever the length, 0 included ; its
\* loop index stays below size().
C23_ToStringInBounds ==
  (vec.pc \notin {"none", "idle"} /\ vec.op = Vector_to_string) =>
    /\ ~vec.overrun
    /\ vec.pc # "crashed"
    /\ vec.i <= Vector_size(vec.x0)
    /\ vec.pc = "returned" => vec.r = vec.x0

====
